---- MODULE Spec2Model ----
(***************************************************************************)
(* Model of the MRI slice dataset of iic/code/datasets/segmentation/       *)
(* mri_dataset.py: the classes _Mri and DiffSeg.                           *)
(*                                                                         *)
(* Arrays are 0-based nested functions, as numpy indexes them:             *)
(*   image  img[r][x][c]   (height, width, channel)                        *)
(*   label  label[r][x]    (height, width)                                 *)
(*   tensor t[c][r][x]     (channel, height, width), after permute(2,0,1)  *)
(* Text (csv cells, dictionary keys) is a sequence of decimal digits.      *)
(* Pixel intensities are integers standing for the float32 values; the     *)
(* random draw and flip_p are counted in units of 1/RandScale.             *)
(***************************************************************************)
EXTENDS Integers, Sequences, FiniteSets, TLC

VARIABLES
  root,        \* self.root, the dataset the volumes are read from
  purpose,     \* self.purpose
  gt_k,        \* self.gt_k
  input_sz,    \* self.input_sz
  flip_p,      \* self.flip_p, in units of 1/RandScale
  out_dir,     \* self.out_dir
  files,       \* self.files, a 1-based sequence of subject ids
  label_idx,   \* self.label_idx, the dictionary built from the csv
  pc,          \* per worker: position inside __getitem__
  index,       \* per worker: the argument of __getitem__
  subject_id,  \* per worker: local of __getitem__
  slice_idx,   \* per worker: local of __getitem__
  raw,         \* per worker: what sio.loadmat gave for the slice
  label,       \* per worker: the label map returned by _load_data
  u,           \* per worker: the value np.random.rand() returned
  mat,         \* per worker: the snapshot handed to sio.savemat
  ret,         \* per worker: the tuple __getitem__ returned
  exc          \* per worker: the exception __getitem__ raised

shared == <<root, purpose, gt_k, input_sz, flip_p, out_dir, files, label_idx>>
vars == <<root, purpose, gt_k, input_sz, flip_p, out_dir, files, label_idx,
          pc, index, subject_id, slice_idx, raw, label, u, mat, ret, exc>>

----------------------------------------------------------------------------
(* Program constants *)

NUM_SLICES == 90

RENDER_DATA == TRUE

(* Bounds of the model *)

MaxSubjects == 2   \* subjects glob may find
MaxDim == 4        \* height and width of a stored slice
MaxLabelDim == 2   \* height and width of a slice of the label runs
MaxSz == 4         \* config.input_sz
MaxChannels == 2   \* channels of a stored slice
MaxCode == 2       \* raw label codes 0..MaxCode
MaxK == 2          \* config.gt_k
RandScale == 2     \* np.random.rand() takes the values 0/RandScale .. (RandScale-1)/RandScale
MaxWorkers == 2    \* parallel workers of the data loader

----------------------------------------------------------------------------
(* Python and numpy primitives *)

Max(a, b) == IF a >= b THEN a ELSE b

\* len(a) of an array: the size of its first axis
Rows(a) == Cardinality(DOMAIN a)

\* len(a[0])
Cols(a) == Cardinality(DOMAIN a[0])

\* str(n) of a non-negative integer
RECURSIVE Str(_)
Str(n) == IF n < 10 THEN <<n>> ELSE Str(n \div 10) \o <<n % 10>>

\* int(s) of a digit string, as numpy converts a str stored into an int array
RECURSIVE IntOf(_)
IntOf(s) ==
  IF Len(s) = 0 THEN 0
  ELSE 10 * IntOf(SubSeq(s, 1, Len(s) - 1)) + s[Len(s)]

\* list[k] of Python: a negative k counts from the end
ListInRange(lst, k) == -Len(lst) <= k /\ k < Len(lst)

ListGet(lst, k) == IF k >= 0 THEN lst[k + 1] ELSE lst[Len(lst) + k + 1]

\* torch.from_numpy(img).permute(2, 0, 1)
Permute201(img) ==
  [c \in DOMAIN img[0][0] |-> [r \in DOMAIN img |-> [x \in DOMAIN img[0] |-> img[r][x][c]]]]

\* torch.flip(t, dims=[2]) of a (channel, height, width) tensor: a new tensor
FlipDim2(t) ==
  [c \in DOMAIN t |-> [r \in DOMAIN t[c] |->
     [x \in DOMAIN t[c][r] |-> t[c][r][Cardinality(DOMAIN t[c][r]) - 1 - x]]]]

\* torch.ones(n, m)
Ones(n, m) == [r \in 0..(n - 1) |-> [x \in 0..(m - 1) |-> 1]]

----------------------------------------------------------------------------
(* code.utils.segmentation.transforms.pad_and_or_crop, mode "centre": the  *)
(* module is not part of the sources at hand; modelled from the            *)
(* specification (GeometricNormalizer): pad with zero fill about the       *)
(* centre where a side is shorter than sz, crop about the centre where it  *)
(* is longer.  fill is the zero cell (0, or a zero per channel).           *)

pad_if_too_small(data, sz, fill) ==
  LET h == Rows(data)
      w == Cols(data)
      new_h == Max(h, sz)
      new_w == Max(w, sz)
      h_start == (new_h \div 2) - (h \div 2)
      w_start == (new_w \div 2) - (w \div 2)
  IN [r \in 0..(new_h - 1) |-> [x \in 0..(new_w - 1) |->
        IF /\ r - h_start \in 0..(h - 1)
           /\ x - w_start \in 0..(w - 1)
        THEN data[r - h_start][x - w_start]
        ELSE fill]]

pad_and_or_crop(orig_data, sz, fill) ==
  LET data == pad_if_too_small(orig_data, sz, fill)
      h == Rows(data)
      w == Cols(data)
      h_start == (h \div 2) - (sz \div 2)
      w_start == (w \div 2) - (sz \div 2)
  IN [r \in 0..(sz - 1) |-> [x \in 0..(sz - 1) |-> data[r + h_start][x + w_start]]]

----------------------------------------------------------------------------
(* Construction: _Mri.__init__ and DiffSeg.__init__ *)

\* osp.join(osp.join(config.out_root, str(config.model_ind)), purpose)
OutDir(config) == <<config.out_root, Str(config.model_ind), config.purpose>>

\* the loop over the csv rows: self.label_idx[rows[0]] = rows[1]
RECURSIVE LabelIdxOf(_)
LabelIdxOf(rows) ==
  IF Len(rows) = 0 THEN [k \in {} |-> <<>>]
  ELSE LET d == LabelIdxOf(SubSeq(rows, 1, Len(rows) - 1))
           row == rows[Len(rows)]
       IN [k \in (DOMAIN d) \cup {row[1]} |-> IF k = row[1] THEN row[2] ELSE d[k]]

\* sorted(glob(osp.join(self.root, 'mwu100307'))): the paths found, in ascending
\* order; a subject is named by the rank of its path (a root with wildcards
\* matches several)
RECURSIVE Sorted(_)
Sorted(S) ==
  IF S = {} THEN <<>>
  ELSE LET m == CHOOSE a \in S : \A b \in S : a <= b
       IN <<m>> \o Sorted(S \ {m})

\* DiffSeg(config, split="all", purpose) with the csv rows and the glob
\* result given, serving the workers of the data loader
Construct(config, rows, found, workers) ==
  /\ root = config.dataset_root
  /\ purpose = config.purpose
  /\ gt_k = config.gt_k
  /\ input_sz = config.input_sz
  /\ flip_p = config.flip_p
  /\ out_dir = OutDir(config)
  /\ label_idx = LabelIdxOf(rows)
  /\ files = Sorted(found)
  /\ pc = [w \in workers |-> "idle"]
  /\ index = [w \in workers |-> 0]
  /\ subject_id = [w \in workers |-> 0]
  /\ slice_idx = [w \in workers |-> 0]
  /\ raw = [w \in workers |-> <<>>]
  /\ label = [w \in workers |-> <<>>]
  /\ u = [w \in workers |-> 0]
  /\ mat = [w \in workers |-> <<>>]
  /\ ret = [w \in workers |-> <<>>]
  /\ exc = [w \in workers |-> <<>>]

----------------------------------------------------------------------------
(* DiffSeg._load_data *)

\* a variant of line 186 that looks up with a default: self.label_idx.get(key, "0")
label_idx_get_default(dict, key) ==
  [raised |-> FALSE, value |-> IF key \in DOMAIN dict THEN dict[key] ELSE Str(0)]

\* self.label_idx[key]: the value, or KeyError
label_idx_getitem(dict, key) ==
  IF key \in DOMAIN dict
  THEN [raised |-> FALSE, value |-> dict[key]]
  ELSE [raised |-> TRUE, value |-> <<>>]

\* the cells of a label map, and their row-major order (the order of the loops)
Cells(lab) == (DOMAIN lab) \X (DOMAIN lab[0])

Before(c, d) == c[1] < d[1] \/ (c[1] = d[1] /\ c[2] <= d[2])

\* loaded is the slice slice_idx of data.mat of the subject:
\* loaded.image = imgs[:, :, slice_idx, :], loaded.label = segs[:, :, slice_idx, 1].
\* The loops run over the cells in row-major order,
\*   label[i, j] = self.label_idx[str(label[i, j])]
\* each cell read once, before it is written: they end at the first cell whose
\* lookup raises, and otherwise leave every cell looked up.
load_data(dict, loaded) ==
  LET lab == loaded.label
      got(c) == label_idx_getitem(dict, Str(lab[c[1]][c[2]]))
      bad == {c \in Cells(lab) : got(c).raised}
      first == CHOOSE c \in bad : \A d \in bad : Before(c, d)
  IN IF bad # {}
     THEN [exc |-> <<"KeyError", Str(lab[first[1]][first[2]])>>,
           image |-> loaded.image, label |-> <<>>]
     ELSE [exc |-> <<>>, image |-> loaded.image,
           label |-> [i \in DOMAIN lab |-> [j \in DOMAIN lab[i] |->
                        IntOf(got(<<i, j>>).value)]]]

----------------------------------------------------------------------------
(* _Mri._prepare_test and _Mri._prepare_train *)

\* a variant of line 108 that leaves the index out of the name
SnapshotPathFixed(dir, i) == <<dir, "_data_", ".mat">>

\* self.out_dir + ("_data_%d.mat" % index)
SnapshotPath(dir, i) == <<dir, "_data_", i, ".mat">>

ZeroCell(img) == [c \in DOMAIN img[0][0] |-> 0]

\* mode "fixed" at the origin: the top-left corner, padded at the bottom and right
pad_and_or_crop_corner(data, sz, fill) ==
  [r \in 0..(sz - 1) |-> [x \in 0..(sz - 1) |->
     IF r \in DOMAIN data /\ x \in DOMAIN data[0] THEN data[r][x] ELSE fill]]

\* a variant of line 98 that takes the corner of the label, not its centre
prepare_test_label_corner(sz, dir, i, img, lab) ==
  LET img1 == pad_and_or_crop(img, sz, ZeroCell(img))
      lab1 == pad_and_or_crop_corner(lab, sz, 0)
  IN [ret |-> <<Permute201(img1), lab1, Ones(sz, sz)>>,
      mat |-> <<[path |-> SnapshotPath(dir, i), img |-> img1, label |-> lab1]>>]

\* a variant of line 100 that scales by 255: img.astype(np.float32) / 255.
\* (the intensities of the model, all below 255, become 0)
prepare_test_scaled(sz, dir, i, img, lab) ==
  LET img0 == pad_and_or_crop(img, sz, ZeroCell(img))
      img1 == [r \in DOMAIN img0 |-> [x \in DOMAIN img0[r] |->
                 [c \in DOMAIN img0[r][x] |-> img0[r][x][c] \div 255]]]
      lab1 == pad_and_or_crop(lab, sz, 0)
  IN [ret |-> <<Permute201(img1), lab1, Ones(sz, sz)>>,
      mat |-> <<[path |-> SnapshotPath(dir, i), img |-> img1, label |-> lab1]>>]

\* lines 93-113; the casts of lines 93, 94 and the division by 1. of line 100
\* leave the values as they are
prepare_test(sz, dir, i, img, lab) ==
  LET img1 == pad_and_or_crop(img, sz, ZeroCell(img))
      lab1 == pad_and_or_crop(lab, sz, 0)
      img_torch == Permute201(img1)
      mask == Ones(sz, sz)
  IN [ret |-> <<img_torch, lab1, mask>>,
      mat |-> IF RENDER_DATA
              THEN <<[path |-> SnapshotPath(dir, i), img |-> img1, label |-> lab1]>>
              ELSE <<>>]

\* a variant of line 75 that flips in place: img2_torch is img_torch itself
prepare_train_inplace(sz, dir, i, img, lab, p, draw) ==
  LET t == prepare_test(sz, dir, i, img, lab)
      flipped == draw > p
      img2_torch == IF flipped THEN FlipDim2(t.ret[1]) ELSE t.ret[1]
  IN [ret |-> <<img2_torch, img2_torch,
                IF flipped THEN <<<<-1, 0, 0>>, <<0, 1, 0>>>> ELSE <<<<1, 0, 0>>, <<0, 1, 0>>>>,
                t.ret[3]>>,
      mat |-> t.mat]

\* a variant of line 81 that negates the whole matrix: affine2_to_1 *= -1.
prepare_train_negate_all(sz, dir, i, img, lab, p, draw) ==
  LET t == prepare_test(sz, dir, i, img, lab)
      flipped == draw > p
  IN [ret |-> <<t.ret[1],
                IF flipped THEN FlipDim2(t.ret[1]) ELSE t.ret[1],
                IF flipped THEN <<<<-1, 0, 0>>, <<0, -1, 0>>>> ELSE <<<<1, 0, 0>>, <<0, 1, 0>>>>,
                t.ret[3]>>,
      mat |-> t.mat]

\* a variant of line 74 that flips on np.random.rand() >= self.flip_p
prepare_train_ge(sz, dir, i, img, lab, p, draw) ==
  LET t == prepare_test(sz, dir, i, img, lab)
      flipped == draw >= p
  IN [ret |-> <<t.ret[1],
                IF flipped THEN FlipDim2(t.ret[1]) ELSE t.ret[1],
                IF flipped THEN <<<<-1, 0, 0>>, <<0, 1, 0>>>> ELSE <<<<1, 0, 0>>, <<0, 1, 0>>>>,
                t.ret[3]>>,
      mat |-> t.mat]

\* draw is the value of np.random.rand(), p is self.flip_p
prepare_train(sz, dir, i, img, lab, p, draw) ==
  LET t == prepare_test(sz, dir, i, img, lab)
      img_torch == t.ret[1]
      mask == t.ret[3]
      identity == <<<<1, 0, 0>>, <<0, 1, 0>>>>
      flipped == draw > p
      img2_torch == IF flipped THEN FlipDim2(img_torch) ELSE img_torch
      affine2_to_1 == IF flipped
                      THEN [identity EXCEPT ![1] = [c \in 1..3 |-> identity[1][c] * (-1)]]
                      ELSE identity
  IN [ret |-> <<img_torch, img2_torch, affine2_to_1, mask>>, mat |-> t.mat]

----------------------------------------------------------------------------
(* _Mri.__getitem__ and _Mri.__len__ *)

\* a variant of line 116 that takes the remainder for the subject
subject_idx_swapped(i) == i % NUM_SLICES

subject_idx_of(i) == i \div NUM_SLICES

slice_idx_of(i) == i % NUM_SLICES

len == Len(files) * NUM_SLICES

Workers == DOMAIN pc

\* lines 116-120: resolve the index, read the slice, remap its labels
GetItem(w, i, loaded) ==
  /\ pc[w] = "idle"
  /\ index' = [index EXCEPT ![w] = i]
  /\ u' = [u EXCEPT ![w] = 0]
  /\ mat' = [mat EXCEPT ![w] = <<>>]
  /\ ret' = [ret EXCEPT ![w] = <<>>]
  /\ IF ~ListInRange(files, subject_idx_of(i))
     THEN /\ pc' = [pc EXCEPT ![w] = "raised"]
          /\ exc' = [exc EXCEPT ![w] = <<"IndexError">>]
          /\ subject_id' = [subject_id EXCEPT ![w] = 0]
          /\ slice_idx' = [slice_idx EXCEPT ![w] = slice_idx_of(i)]
          /\ raw' = [raw EXCEPT ![w] = <<>>]
          /\ label' = [label EXCEPT ![w] = <<>>]
     ELSE LET r == load_data(label_idx, loaded)
          IN /\ subject_id' = [subject_id EXCEPT ![w] = ListGet(files, subject_idx_of(i))]
             /\ slice_idx' = [slice_idx EXCEPT ![w] = slice_idx_of(i)]
             /\ raw' = [raw EXCEPT ![w] = loaded]
             /\ IF r.exc # <<>>
                THEN /\ pc' = [pc EXCEPT ![w] = "raised"]
                     /\ exc' = [exc EXCEPT ![w] = r.exc]
                     /\ label' = [label EXCEPT ![w] = <<>>]
                ELSE /\ pc' = [pc EXCEPT ![w] = "loaded"]
                     /\ exc' = [exc EXCEPT ![w] = <<>>]
                     /\ label' = [label EXCEPT ![w] = r.label]
  /\ UNCHANGED shared

\* lines 93-110, reached from line 123 or 126: normalise the slice and
\* hand the snapshot to sio.savemat
Prepare(w) ==
  /\ pc[w] = "loaded"
  /\ mat' = [mat EXCEPT ![w] =
       prepare_test(input_sz, out_dir, index[w], raw[w].image, label[w]).mat]
  /\ pc' = [pc EXCEPT ![w] = "saving"]
  /\ UNCHANGED <<index, subject_id, slice_idx, raw, label, u, ret, exc>>
  /\ UNCHANGED shared

\* savemat is through; lines 113 and 67-83: build and return the sample
Return(w, draw) ==
  /\ pc[w] = "saving"
  /\ IF purpose = "train"
     THEN /\ u' = [u EXCEPT ![w] = draw]
          /\ ret' = [ret EXCEPT ![w] =
               prepare_train(input_sz, out_dir, index[w], raw[w].image, label[w],
                             flip_p, draw).ret]
     ELSE /\ draw = 0
          /\ u' = u
          /\ ret' = [ret EXCEPT ![w] =
               prepare_test(input_sz, out_dir, index[w], raw[w].image, label[w]).ret]
  /\ pc' = [pc EXCEPT ![w] = "returned"]
  /\ UNCHANGED <<index, subject_id, slice_idx, raw, label, mat, exc>>
  /\ UNCHANGED shared

\* the caller took the sample, or handled the exception: the locals of the
\* call are gone and the worker is free for the next index
Finish(w) ==
  /\ pc[w] \in {"returned", "raised"}
  /\ pc' = [pc EXCEPT ![w] = "idle"]
  /\ index' = [index EXCEPT ![w] = 0]
  /\ subject_id' = [subject_id EXCEPT ![w] = 0]
  /\ slice_idx' = [slice_idx EXCEPT ![w] = 0]
  /\ raw' = [raw EXCEPT ![w] = <<>>]
  /\ label' = [label EXCEPT ![w] = <<>>]
  /\ u' = [u EXCEPT ![w] = 0]
  /\ mat' = [mat EXCEPT ![w] = <<>>]
  /\ ret' = [ret EXCEPT ![w] = <<>>]
  /\ exc' = [exc EXCEPT ![w] = <<>>]
  /\ UNCHANGED shared

----------------------------------------------------------------------------
(* Inputs: the slices a dataset root holds, the csv tables, the draws *)

Draws == 0..(RandScale - 1)

Codes == 0..MaxCode

\* an image whose cells all differ and are not zero
CodedImage(h, w, n) ==
  [r \in 0..(h - 1) |-> [x \in 0..(w - 1) |-> [c \in 0..(n - 1) |-> 1 + c + n * (x + w * r)]]]

\* an image that is zero but for the value 9 in the cell (r0, x0) of every channel
MarkerImage(h, w, n, r0, x0) ==
  [r \in 0..(h - 1) |-> [x \in 0..(w - 1) |-> [c \in 0..(n - 1) |->
     IF r = r0 /\ x = x0 THEN 9 ELSE 0]]]

\* a label map that repeats the codes of pat in row-major order
PatternLabel(h, w, pat) ==
  [r \in 0..(h - 1) |-> [x \in 0..(w - 1) |-> pat[((x + w * r) % Len(pat)) + 1]]]

Patterns(codes) == {<<a>> : a \in codes} \cup {<<a, b>> : a, b \in codes}

TinySlice == [image |-> CodedImage(1, 1, 1), label |-> PatternLabel(1, 1, <<0>>)]

LabelSlices ==
  {[image |-> CodedImage(h, w, 1), label |-> PatternLabel(h, w, pat)] :
     h \in 1..MaxLabelDim, w \in 1..MaxLabelDim, pat \in Patterns(Codes)}

GeometrySlices ==
  UNION {
    {[image |-> img, label |-> PatternLabel(h, w, pat)] :
       img \in {CodedImage(h, w, n)}
               \cup {MarkerImage(h, w, n, r0, x0) : r0 \in {0, h - 1}, x0 \in {0, w - 1}},
       pat \in {<<1>>, <<0, 1, 1>>}} :
    h \in 1..MaxDim, w \in 1..MaxDim, n \in 1..MaxChannels}

\* a slice of the shape the volumes have (source line 176: 90 by 108)
HcpSlice ==
  [image |-> CodedImage(NUM_SLICES, 108, 1),
   label |-> PatternLabel(NUM_SLICES, 108, <<0, 1, 1, 0, 1>>)]

\* what sio.loadmat may give for a slice of a subject under the root
Disk(r) ==
  CASE r = "tiny" -> {TinySlice}
    [] r = "labels" -> LabelSlices
    [] r = "geometry" -> GeometrySlices
    [] r = "hcp" -> {HcpSlice}

\* a csv with one row per code of keys, in ascending order, the dense id
\* of a code being the code shifted by d
RECURSIVE CsvRows(_, _)
CsvRows(keys, d) ==
  IF keys = {} THEN <<>>
  ELSE LET m == CHOOSE a \in keys : \A b \in keys : a <= b
       IN <<<<Str(m), Str((m + d) % (MaxK + 1))>>>> \o CsvRows(keys \ {m}, d)

Csvs == {CsvRows(keys, d) : keys \in SUBSET Codes, d \in 0..MaxK}

\* the csv of the runs that are not about labels: 0 -> 1, 1 -> 0
PlainCsv == <<<<Str(0), Str(1)>>, <<Str(1), Str(0)>>>>

BaseConfig ==
  [dataset_root |-> "tiny", purpose |-> "test", gt_k |-> MaxK, input_sz |-> 1,
   flip_p |-> 0, out_root |-> "out", model_ind |-> 1]

----------------------------------------------------------------------------
(* Specifications.  Each draws the construction arguments in Init and the  *)
(* arguments of the calls in Next.                                         *)

Purposes == {"train", "test"}

\* flip_p is set for purpose train only
FlipPs(p) == IF p = "train" THEN 0..RandScale ELSE {0}

\* one step of one worker, the sampler drawing its indices from idxs
Load(idxs) == \E w \in Workers, i \in idxs, loaded \in Disk(root) : GetItem(w, i, loaded)

Normalise == \E w \in Workers : Prepare(w)

Deliver == \E w \in Workers, draw \in Draws : Return(w, draw)

Release == \E w \in Workers : Finish(w)

\* Index resolution: every list of subjects, every index from below -len to above len
IndexInputs == (-(MaxSubjects * NUM_SLICES) - 1)..(MaxSubjects * NUM_SLICES + 1)

InitIndex ==
  \E p \in Purposes, found \in SUBSET (1..MaxSubjects) :
    Construct([BaseConfig EXCEPT !.purpose = p], PlainCsv, found, {1})

LoadIndex == Load(IndexInputs)

NextIndex == LoadIndex \/ Normalise \/ Deliver \/ Release

SpecIndex == InitIndex /\ [][NextIndex]_vars

\* Label remapping: every csv, every gt_k, label maps with mapped and unmapped codes
InitLabel ==
  \E k \in 1..MaxK, rows \in Csvs, sz \in 1..MaxLabelDim :
    Construct([BaseConfig EXCEPT !.dataset_root = "labels", !.gt_k = k, !.input_sz = sz],
              rows, {1}, {1})

LoadLabel == Load({0, NUM_SLICES - 1})

NextLabel == LoadLabel \/ Normalise \/ Deliver \/ Release

SpecLabel == InitLabel /\ [][NextLabel]_vars

\* Sample preparation: every slice shape against every input_sz, both purposes,
\* every flip_p and draw; and the 90 by 108 slice against input_sz 80
InitPrep ==
  \/ \E p \in Purposes, sz \in 1..MaxSz :
       \E fp \in FlipPs(p) :
         Construct([BaseConfig EXCEPT !.dataset_root = "geometry", !.purpose = p,
                                      !.input_sz = sz, !.flip_p = fp],
                   PlainCsv, {1}, {1})
  \/ \E p \in Purposes :
       Construct([BaseConfig EXCEPT !.dataset_root = "hcp", !.purpose = p,
                                    !.input_sz = 80, !.flip_p = 0],
                 PlainCsv, {1}, {1})

LoadPrep == Load({0})

NextPrep == LoadPrep \/ Normalise \/ Deliver \/ Release

SpecPrep == InitPrep /\ [][NextPrep]_vars

\* Parallel workers of one data loader over one dataset
ConcInputs == {-1, 0, 1, NUM_SLICES - 1, NUM_SLICES}

InitConc ==
  \E p \in Purposes :
    Construct([BaseConfig EXCEPT !.purpose = p], PlainCsv, {1}, 1..MaxWorkers)

LoadConc == Load(ConcInputs)

NextConc == LoadConc \/ Normalise \/ Deliver \/ Release

SpecConc == InitConc /\ [][NextConc]_vars

Init == InitConc

Next == NextConc

Spec == SpecConc

----------------------------------------------------------------------------
(* Index resolution *)

Resolved(w) == pc[w] \in {"loaded", "saving", "returned"}

Called(w) == pc[w] # "idle"

\* the pairs (position in files, local slice) of the dataset
PairSpace == (0..(Len(files) - 1)) \X (0..(NUM_SLICES - 1))

ResolveOf(i) == <<subject_idx_of(i), slice_idx_of(i)>>

\* C1: every flat index i in [0, len) resolves to (files[i div NUM_SLICES],
\* i mod NUM_SLICES) and does not fail on the index; len is the number of
\* (subject position, local slice) pairs, and index -> pair is a bijection
\* of [0, len) onto those pairs (it has the two-sided inverse k*NUM_SLICES + l).
Thm_C1_IndexBijection ==
  /\ \A w \in Workers :
       Called(w) /\ index[w] \in 0..(len - 1) =>
         /\ exc[w] # <<"IndexError">>
         /\ subject_id[w] = files[(index[w] \div NUM_SLICES) + 1]
         /\ slice_idx[w] = index[w] % NUM_SLICES
  /\ len = Cardinality(PairSpace)
  /\ \A i \in 0..(len - 1) :
       /\ ResolveOf(i) \in PairSpace
       /\ ResolveOf(i)[1] * NUM_SLICES + ResolveOf(i)[2] = i
  /\ \A q \in PairSpace : ResolveOf(q[1] * NUM_SLICES + q[2]) = q

\* a sample of the second subject was returned: index NUM_SLICES + 1 is its slice 1
Wit_C1_SecondSubject ==
  \E w \in Workers :
    /\ pc[w] = "returned"
    /\ Len(files) = 2
    /\ index[w] = NUM_SLICES + 1
    /\ subject_id[w] = files[2]
    /\ slice_idx[w] = 1

\* C2: an access with a flat index outside [0, len), negative ones included,
\* raises the index error and resolves to no (subject, slice) pair
CE_C2_OutOfRangeRaises ==
  \A w \in Workers :
    Called(w) /\ index[w] \notin 0..(len - 1) =>
      pc[w] = "raised" /\ exc[w] = <<"IndexError">>

----------------------------------------------------------------------------
(* Label remapping *)

\* the slice was read: the index resolved to a subject
Read(w) == Called(w) /\ exc[w] # <<"IndexError">>

\* the raw codes of a label map that are no key of the label table
Unmapped(lab) ==
  {lab[c[1]][c[2]] : c \in {d \in Cells(lab) : Str(lab[d[1]][d[2]]) \notin DOMAIN label_idx}}

\* C3: when the raw label map of the slice holds a code that is no key of the
\* label table, the access raises the key error for such a code: it returns no
\* sample and nothing of the slice reaches sample preparation (no snapshot).
Thm_C3_UnmappedRaises ==
  \A w \in Workers :
    Read(w) /\ Unmapped(raw[w].label) # {} =>
      /\ pc[w] = "raised"
      /\ Len(exc[w]) = 2
      /\ exc[w][1] = "KeyError"
      /\ exc[w][2] \in {Str(c) : c \in Unmapped(raw[w].label)}
      /\ ret[w] = <<>>
      /\ mat[w] = <<>>
      /\ label[w] = <<>>

\* the first cell of the map is a key of the table, a later one is not: the
\* access raised after remapping a part of the map
Wit_C3_RaisedMidway ==
  \E w \in Workers :
    /\ pc[w] = "raised"
    /\ exc[w] = <<"KeyError", Str(2)>>
    /\ Str(raw[w].label[0][0]) \in DOMAIN label_idx
    /\ raw[w].label[0][1] = 2

\* C4: when every raw code of the slice is a key of the label table, every
\* value of the remapped label map, and of the label a test sample returns,
\* lies in [0, gt_k)
CE_C4_LabelsBelowGtK ==
  \A w \in Workers :
    /\ Resolved(w) =>
         \A c \in Cells(label[w]) : label[w][c[1]][c[2]] \in 0..(gt_k - 1)
    /\ pc[w] = "returned" /\ purpose = "test" =>
         \A c \in Cells(ret[w][2]) : ret[w][2][c[1]][c[2]] \in 0..(gt_k - 1)

----------------------------------------------------------------------------
(* Sample preparation *)

Prepared(w) == pc[w] \in {"saving", "returned"}

TrainSample(w) == pc[w] = "returned" /\ purpose = "train"

Identity23 == <<<<1, 0, 0>>, <<0, 1, 0>>>>

FlipInverse23 == <<<<-1, 0, 0>>, <<0, 1, 0>>>>

\* C5: view1 of a train sample is, cell for cell, the image the test pipeline
\* gives for the same raw slice (the one it saved to the snapshot before the
\* draw), whatever the draw and flip_p: making view2 does not alter view1
Thm_C5_View1IsTestImage ==
  \A w \in Workers :
    TrainSample(w) =>
      /\ ret[w][1] = prepare_test(input_sz, out_dir, index[w], raw[w].image, label[w]).ret[1]
      /\ \A c \in DOMAIN ret[w][1] : \A r \in DOMAIN ret[w][1][c] :
           \A x \in DOMAIN ret[w][1][c][r] : ret[w][1][c][r][x] = mat[w][1].img[r][x][c]

\* a train sample whose second view was flipped and differs from the first
Wit_C5_FlippedView2Differs ==
  \E w \in Workers : TrainSample(w) /\ u[w] > flip_p /\ ret[w][2] # ret[w][1]

\* C6: the affine transform of a train sample is a 2x3 matrix, either
\* [[1,0,0],[0,1,0]] or [[-1,0,0],[0,1,0]]
Thm_C6_AffineOneOfTwo ==
  \A w \in Workers :
    TrainSample(w) =>
      /\ Len(ret[w][3]) = 2
      /\ \A k \in 1..2 : Len(ret[w][3][k]) = 3
      /\ ret[w][3] \in {Identity23, FlipInverse23}

\* a train sample with the transform of the flip
Wit_C6_FlipTransform ==
  \E w \in Workers : TrainSample(w) /\ ret[w][3] = FlipInverse23

\* the 4x4 single-channel slice with 9 at (0, 0), against input_sz 4
Scenario4x4(w) ==
  /\ input_sz = 4
  /\ raw[w].image = MarkerImage(4, 4, 1, 0, 0)

\* C7: the draw u and flip_p decide the second view: if u > flip_p, view2 is
\* view1 mirrored along the width, view2[c][r][x] = view1[c][r][W-1-x], and the
\* transform is [[-1,0,0],[0,1,0]]; otherwise view2 is view1 and the transform
\* is the identity.  For the 4x4 slice with 9 at (0,0) the flip gives view2[0,3] = 9.
Thm_C7_FlipByDraw ==
  \A w \in Workers :
    TrainSample(w) =>
      LET view1 == ret[w][1]
          view2 == ret[w][2]
      IN /\ u[w] > flip_p =>
              /\ DOMAIN view2 = DOMAIN view1
              /\ \A c \in DOMAIN view1 :
                   /\ DOMAIN view2[c] = 0..(input_sz - 1)
                   /\ \A r \in DOMAIN view1[c] :
                        /\ DOMAIN view2[c][r] = 0..(input_sz - 1)
                        /\ \A x \in 0..(input_sz - 1) :
                             view2[c][r][x] = view1[c][r][input_sz - 1 - x]
              /\ ret[w][3] = FlipInverse23
              /\ Scenario4x4(w) => view2[0][0][3] = 9
         /\ u[w] <= flip_p => view2 = view1 /\ ret[w][3] = Identity23

\* the 4x4 scenario, flipped
Wit_C7_Scenario4x4Flipped ==
  \E w \in Workers :
    /\ TrainSample(w)
    /\ Scenario4x4(w)
    /\ u[w] > flip_p
    /\ ret[w][2][0][0][3] = 9
    /\ ret[w][1][0][0][0] = 9

\* an array of sz by sz cells: the cell (r, x) is the cell (r + dr, x + dx)
\* of a, or fill where a has no such cell
Shifted(a, sz, dr, dx, fill) ==
  [r \in 0..(sz - 1) |-> [x \in 0..(sz - 1) |->
     IF (r + dr) \in DOMAIN a /\ (x + dx) \in DOMAIN a[0] THEN a[r + dr][x + dx] ELSE fill]]

\* the offsets that leave margins equal on both sides, or differing by one
HalfDiffs(n, sz) == {(n - sz) \div 2, (n - sz + 1) \div 2}

IsSquare(a, sz) == DOMAIN a = 0..(sz - 1) /\ \A r \in DOMAIN a : DOMAIN a[r] = 0..(sz - 1)

\* the 90 by 108 slice against input_sz 80
ScenarioHcp(w) ==
  /\ input_sz = 80
  /\ Rows(raw[w].image) = 90
  /\ Cols(raw[w].image) = 108

\* C8: whatever the height and width of the slice, the image, the label and
\* the mask the test pipeline makes are input_sz by input_sz; image and label
\* are the slice cropped or zero-padded about the centre with the same
\* offsets, the mask is all ones; for input_sz 80 and a 90 by 108 slice the
\* output is rows 5..84 and columns 14..93.
Thm_C8_NormalisedGeometry ==
  \A w \in Workers :
    Prepared(w) =>
      LET img == mat[w][1].img
          lab == mat[w][1].label
          src == raw[w].image
          zero == [c \in DOMAIN src[0][0] |-> 0]
      IN /\ IsSquare(img, input_sz)
         /\ IsSquare(lab, input_sz)
         /\ \E dr \in HalfDiffs(Rows(src), input_sz), dx \in HalfDiffs(Cols(src), input_sz) :
              /\ img = Shifted(src, input_sz, dr, dx, zero)
              /\ lab = Shifted(label[w], input_sz, dr, dx, 0)
         /\ ScenarioHcp(w) =>
              \A r \in 0..79 : \A x \in 0..79 :
                img[r][x] = src[r + 5][x + 14] /\ lab[r][x] = label[w][r + 5][x + 14]
         /\ pc[w] = "returned" =>
              /\ ret[w][1] = Permute201(img)
              /\ \A c \in DOMAIN ret[w][1] : IsSquare(ret[w][1][c], input_sz)
              /\ purpose = "test" => ret[w][2] = lab
              /\ LET mask == ret[w][Len(ret[w])]
                 IN IsSquare(mask, input_sz)
                    /\ \A r \in DOMAIN mask : \A x \in DOMAIN mask[r] : mask[r][x] = 1

\* the test sample of the 90 by 108 slice, with the input's cell (5, 14) first
Wit_C8_HcpCropped ==
  \E w \in Workers :
    /\ pc[w] = "returned"
    /\ purpose = "test"
    /\ ScenarioHcp(w)
    /\ ret[w][1][0][0][0] = raw[w].image[5][14][0]
    /\ ret[w][1][0][79][79] = raw[w].image[84][93][0]

\* C9: pad_and_or_crop is idempotent: applied again with input_sz to what it
\* gave for input_sz it changes nothing, and a slice that is input_sz by
\* input_sz already comes out unchanged
Thm_C9_Idempotent ==
  \A w \in Workers :
    Prepared(w) =>
      LET img == mat[w][1].img
          lab == mat[w][1].label
          src == raw[w].image
      IN /\ pad_and_or_crop(img, input_sz, ZeroCell(src)) = img
         /\ pad_and_or_crop(lab, input_sz, 0) = lab
         /\ Rows(src) = input_sz /\ Cols(src) = input_sz =>
              img = src /\ lab = label[w]

\* a 3 by 3 slice with a non-zero corner came through input_sz 3 unchanged
Wit_C9_AlreadySized ==
  \E w \in Workers :
    /\ Prepared(w)
    /\ input_sz = 3
    /\ Rows(raw[w].image) = 3
    /\ Cols(raw[w].image) = 3
    /\ mat[w][1].img = raw[w].image
    /\ raw[w].image[0][0][0] # 0

----------------------------------------------------------------------------
(* Parallel workers *)

\* w is inside sio.savemat, writing its snapshot
Saving(w) == pc[w] = "saving"

SamePath(v, w) == mat[v][1].path = mat[w][1].path

\* C10 as stated: workers that are writing at the same time never write the
\* same snapshot path
CE_C10_NeverSamePath ==
  \A v, w \in Workers : v # w /\ Saving(v) /\ Saving(w) => ~SamePath(v, w)

\* C10, amended: no step of an access changes the fields set at construction
\* (root, purpose, gt_k, input_sz, flip_p, out_dir, files, label_idx), and two
\* workers that are writing at the same time write the same snapshot path
\* exactly when they were given the same flat index.
Thm_C10_SamePathIffSameIndex ==
  /\ [][shared' = shared]_vars
  /\ [](\A v, w \in Workers :
          v # w /\ Saving(v) /\ Saving(w) => (SamePath(v, w) <=> index[v] = index[w]))

\* two workers writing at the same time, given different indices that resolve
\* to the same slice (-1 and NUM_SLICES - 1), to different paths
Wit_C10_TwoWriters ==
  \E v, w \in Workers :
    /\ v # w
    /\ Saving(v) /\ Saving(w)
    /\ index[v] = -1
    /\ index[w] = NUM_SLICES - 1
    /\ slice_idx[v] = slice_idx[w]
    /\ ~SamePath(v, w)

====
